---- MODULE Spec2Model ----
(***************************************************************************)
(* fastapi_logging_middleware: the capture pipeline (LoggingMiddleware,    *)
(* LoggingHandler) and the exporter (RequestInfo, ResponseInfo, masking,   *)
(* body reading), modelled from the sources under src/.                    *)
(***************************************************************************)
EXTENDS Integers, Sequences, FiniteSets, TLC

(***************************************************************************)
(* Bounds of the model.                                                    *)
(***************************************************************************)
\* longest query-parameter / header multimap drawn as an input
MaxItems == 2
\* most handlers passed to LoggingMiddleware(handlers=...)
MaxHandlers == 2
\* most chunks a streaming response body is made of
MaxChunks == 2

None == "None"

(***************************************************************************)
(* Strings. Names are drawn from a small alphabet that holds a name with   *)
(* an upper-case letter; Lower is str.lower() on that alphabet.            *)
(***************************************************************************)
Names == {"token", "Token", "authorization", "visible"}

Lower(s) == IF s = "Token" THEN "token" ELSE s

\* header names as they are stored in the raw list of a Headers object
\* (lower-case: Headers(headers=...) lower-cases them, ASGI servers send them so)
HeaderNames == {Lower(n) : n \in Names}

Values == {"s1", "s2"}

\* http_exporter.py:12
DEFAULT_MASKED_NAMES == {"authorization", "token"}

\* http_exporter.py:37
masked_value == "MASKED"

\* all sequences over S of length 0..n
SeqsUpTo(S, n) == UNION {[1..k -> S] : k \in 0..n}

(***************************************************************************)
(* Multimaps (QueryParams, Headers): sequences of <<key, value>> pairs.    *)
(***************************************************************************)
\* Headers.get(name): the value of the first entry whose key is name.lower()
HeadersGet(headers, name) ==
    LET hits == {i \in 1..Len(headers) : headers[i][1] = Lower(name)}
    IN  IF hits = {} THEN None
        ELSE headers[CHOOSE i \in hits : \A j \in hits : i <= j][2]

\* MutableHeaders.__setitem__(key, value): the first entry of that key is
\* overwritten in place, every later entry of the key is deleted; with no
\* entry of the key, one is appended.
HeadersSetItem(headers, key, value) ==
    LET k     == Lower(key)
        hits  == {i \in 1..Len(headers) : headers[i][1] = k}
        first == CHOOSE i \in hits : \A j \in hits : i <= j
        keep  == {i \in 1..Len(headers) : i \notin hits \/ i = first}
        \* the kept indexes in increasing order
        nth[n \in 1..Cardinality(keep)] ==
            CHOOSE i \in keep : Cardinality({j \in keep : j < i}) = n - 1
    IN  IF hits = {} THEN Append(headers, <<k, value>>)
        ELSE [n \in 1..Cardinality(keep) |->
                 IF nth[n] = first THEN <<k, value>> ELSE headers[nth[n]]]

\* a _mask_private_params that looks the key up as it is written
_mask_private_params_exact(params, masked_names) ==
    [i \in 1..Len(params) |->
        IF params[i][1] \in masked_names
        THEN <<params[i][1], masked_value>>
        ELSE params[i]]

\* a _mask_private_params that adds the names it is given to the default ones
_mask_private_params_and_default(params, masked_names) ==
    [i \in 1..Len(params) |->
        IF Lower(params[i][1]) \in masked_names \cup DEFAULT_MASKED_NAMES
        THEN <<params[i][1], masked_value>>
        ELSE params[i]]

\* BaseInfo._mask_private_params
_mask_private_params(params, masked_names) ==
    [i \in 1..Len(params) |->
        IF Lower(params[i][1]) \in masked_names
        THEN <<params[i][1], masked_value>>
        ELSE params[i]]

\* the loop `for name in masked_names` of _mask_private_headers, over the
\* names in some order; the result does not depend on the order
MaskHeadersLoop(headers, names) ==
    LET loop[todo \in SUBSET names] ==
            IF todo = {} THEN headers
            ELSE LET name == CHOOSE n \in todo : TRUE
                     before == loop[todo \ {name}]
                 IN  IF HeadersGet(before, name) # None
                     THEN HeadersSetItem(before, name, masked_value)
                     ELSE before
    IN  loop[names]

\* a masker that adds the masked entry with MutableHeaders.append instead of
\* assigning it: the entries of the name stay and one more is added
MaskHeadersAppendLoop(headers, names) ==
    LET loop[todo \in SUBSET names] ==
            IF todo = {} THEN headers
            ELSE LET name == CHOOSE n \in todo : TRUE
                     before == loop[todo \ {name}]
                 IN  IF HeadersGet(before, name) # None
                     THEN Append(before, <<Lower(name), masked_value>>)
                     ELSE before
    IN  loop[names]

_mask_private_headers_append(headers, masked_names) ==
    MaskHeadersAppendLoop(headers, masked_names)

\* BaseInfo._mask_private_headers (on a mutable copy of the argument)
_mask_private_headers(headers, masked_names) ==
    MaskHeadersLoop(headers, masked_names)

\* BaseInfo._mask_private_data: dispatch on the type of the value
_mask_private_data(type, data, masked_names) ==
    IF type = "QueryParams" THEN _mask_private_params(data, masked_names)
    ELSE IF type = "Headers" THEN _mask_private_headers(data, masked_names)
    ELSE data

(***************************************************************************)
(* The exporter. A dataclass instance is the sequence of its fields in     *)
(* declaration order, each <<name, type, value>>; a dict is the sequence   *)
(* of its items in insertion order, in the same form.                      *)
(***************************************************************************)
\* the names of the fields of a capture or the keys of a dict, in order
KeysOf(items) == [i \in 1..Len(items) |-> items[i][1]]

HasKey(items, key) == \E i \in 1..Len(items) : items[i][1] = key

\* the field of a capture or the item of a dict with that name
Item(items, key) == items[CHOOSE i \in 1..Len(items) : items[i][1] = key]

\* a conversion that goes through dict(params): one pair per key, with the
\* value of its last entry
UrlEncode_of_dict(params) ==
    LET kept == {i \in 1..Len(params) :
                    \A j \in (i + 1)..Len(params) : params[j][1] # params[i][1]}
        enc[n \in 0..Len(params)] ==
            IF n = 0 THEN ""
            ELSE IF n \notin kept THEN enc[n - 1]
            ELSE LET pair == params[n][1] \o "=" \o params[n][2]
                 IN  IF enc[n - 1] = "" THEN pair
                     ELSE enc[n - 1] \o "&" \o pair
    IN  enc[Len(params)]

\* convert_to_str on a QueryParams: urlencode of the multi-items
UrlEncode(params) ==
    LET enc[n \in 0..Len(params)] ==
            IF n = 0 THEN ""
            ELSE LET pair == params[n][1] \o "=" \o params[n][2]
                 IN  IF n = 1 THEN pair ELSE enc[n - 1] \o "&" \o pair
    IN  enc[Len(params)]

convert_to_str(type, value) ==
    IF type = "QueryParams" THEN UrlEncode(value) ELSE value

\* convert_headers_to_dict: dict(headers.items()); a key keeps the place of
\* its first entry and the value of its last
convert_headers_to_dict(headers) ==
    LET firsts == {i \in 1..Len(headers) :
                      \A j \in 1..(i - 1) : headers[j][1] # headers[i][1]}
        nth[n \in 1..Cardinality(firsts)] ==
            CHOOSE i \in firsts : Cardinality({j \in firsts : j < i}) = n - 1
        last(k) == CHOOSE i \in 1..Len(headers) :
                      /\ headers[i][1] = k
                      /\ \A j \in (i + 1)..Len(headers) : headers[j][1] # k
    IN  [n \in 1..Cardinality(firsts) |->
            <<headers[nth[n]][1], "str", headers[last(headers[nth[n]][1])][2]>>]

\* convert_address_to_dict: Address._asdict()
convert_address_to_dict(address) ==
    <<<<"host", "str", address[1]>>, <<"port", "int", address[2]>>>>

\* the loop over Config.dumpers in as_dict, on one (masked) value
Dump(field) ==
    LET name == field[1]
        type == field[2]
        value == field[3]
    IN  IF type \in {"URL", "QueryParams"}
        THEN <<name, "str", convert_to_str(type, value)>>
        ELSE IF type = "Headers"
        THEN <<name, "dict", convert_headers_to_dict(value)>>
        ELSE IF type = "Address"
        THEN <<name, "dict", convert_address_to_dict(value)>>
        ELSE field

\* an as_dict whose exclude_none leaves out every value that is false (`if
\* value`): an empty QueryParams or Headers as well as None
as_dict_drops_empty(self, is_mask_private_data, masked_names, exclude_none) ==
    LET notEmpty(f) ==
            /\ f[2] # "NoneType"
            /\ f[2] \in {"QueryParams", "Headers"} => Len(f[3]) > 0
        data == IF exclude_none THEN SelectSeq(self, notEmpty) ELSE self
    IN  [i \in 1..Len(data) |->
            LET f == data[i]
                value == IF is_mask_private_data
                         THEN _mask_private_data(f[2], f[3], masked_names)
                         ELSE f[3]
            IN  Dump(<<f[1], f[2], value>>)]

\* an as_dict that masks whatever is_mask_private_data says
as_dict_always_masks(self, is_mask_private_data, masked_names, exclude_none) ==
    LET notNone(f) == f[2] # "NoneType"
        data == IF exclude_none THEN SelectSeq(self, notNone) ELSE self
    IN  [i \in 1..Len(data) |->
            LET f == data[i]
            IN  Dump(<<f[1], f[2], _mask_private_data(f[2], f[3], masked_names)>>)]

\* BaseInfo.as_dict
as_dict(self, is_mask_private_data, masked_names, exclude_none) ==
    LET notNone(f) == f[2] # "NoneType"
        data == IF exclude_none THEN SelectSeq(self, notNone) ELSE self
    IN  [i \in 1..Len(data) |->
            LET f == data[i]
                value == IF is_mask_private_data
                         THEN _mask_private_data(f[2], f[3], masked_names)
                         ELSE f[3]
            IN  Dump(<<f[1], f[2], value>>)]

\* orjson.dumps(...).decode(): compact JSON text of a dumped value; a dict
\* nests dicts of strings and numbers (headers, client_address, request)
JsonScalar(type, value) ==
    IF type = "str" THEN "\"" \o value \o "\""
    ELSE IF type = "int" THEN ToString(value)
    ELSE "null"

JsonFlatDict(items) ==
    LET enc[n \in 0..Len(items)] ==
            IF n = 0 THEN ""
            ELSE LET item == "\"" \o items[n][1] \o "\":"
                                 \o JsonScalar(items[n][2], items[n][3])
                 IN  IF n = 1 THEN item ELSE enc[n - 1] \o "," \o item
    IN  "{" \o enc[Len(items)] \o "}"

JsonValue(type, value) ==
    IF type = "dict" THEN JsonFlatDict(value) ELSE JsonScalar(type, value)

JsonDict(items) ==
    LET enc[n \in 0..Len(items)] ==
            IF n = 0 THEN ""
            ELSE LET item == "\"" \o items[n][1] \o "\":"
                                 \o JsonValue(items[n][2], items[n][3])
                 IN  IF n = 1 THEN item ELSE enc[n - 1] \o "," \o item
    IN  "{" \o enc[Len(items)] \o "}"

orjson_dumps(obj) == JsonDict(obj)

\* as_json that passes is_mask_private_data=False
as_json_unmasked(self) ==
    orjson_dumps(as_dict(self, FALSE, DEFAULT_MASKED_NAMES, TRUE))

\* BaseInfo.as_json with its default arguments
as_json(self) == orjson_dumps(as_dict(self, TRUE, DEFAULT_MASKED_NAMES, TRUE))

\* b''.join(chunks)
Join(chunks) ==
    LET cat[n \in 0..Len(chunks)] ==
            IF n = 0 THEN "" ELSE cat[n - 1] \o chunks[n]
    IN  cat[Len(chunks)]

\* str(b) of a bytes object: its literal b'...'
StrOfBytes(b) == "b'" \o b \o "'"

\* EndpointInfo(method, path), as asdict() nests it
EndpointInfo(method, path) ==
    <<<<"method", "str", method>>, <<"path", "str", path>>>>

\* ResponseInfo(status_code, headers, request, body)
ResponseInfo(status_code, headers, request, body) ==
    << <<"type", "str", "Response">>,
       <<"status_code", "int", status_code>>,
       <<"headers", "Headers", headers>>,
       request,
       body >>

\* a RequestInfo that declares body before client_address
RequestInfo_body_first(method, path, query_params, headers, client_address, body) ==
    << <<"type", "str", "Request">>,
       <<"method", "str", method>>,
       <<"path", "str", path>>,
       <<"query_params", "QueryParams", query_params>>,
       <<"headers", "Headers", headers>>,
       body,
       client_address >>

\* RequestInfo(method, path, query_params, headers, client_address, body)
RequestInfo(method, path, query_params, headers, client_address, body) ==
    << <<"type", "str", "Request">>,
       <<"method", "str", method>>,
       <<"path", "str", path>>,
       <<"query_params", "QueryParams", query_params>>,
       <<"headers", "Headers", headers>>,
       client_address,
       body >>

\* RequestInfo.mask_private_data / ResponseInfo.mask_private_data: a copy of
\* the capture with masked query parameters (a request) and headers
mask_private_data(self, masked_names) ==
    [i \in 1..Len(self) |->
        IF self[i][2] = "QueryParams"
        THEN <<self[i][1], "QueryParams",
               _mask_private_params(self[i][3], masked_names)>>
        ELSE IF self[i][2] = "Headers"
        THEN <<self[i][1], "Headers",
               _mask_private_headers(self[i][3], masked_names)>>
        ELSE self[i]]

VARIABLES
    mkind,      \* the type of the container: "QueryParams" or "Headers"
    mdata,      \* the container passed in
    mnames,     \* the masked-name set passed in
    mcalls,     \* how many times the masker has been applied (0..2)
    mresult,    \* the result of masking mdata (once mcalls >= 1)
    magain      \* the result of masking mresult (once mcalls = 2)

maskVars == <<mkind, mdata, mnames, mcalls, mresult, magain>>

\* One use of the exporter on its own: a capture is built (directly or from a
\* live request or response), then exported with as_dict or copied with
\* mask_private_data.
VARIABLES
    xcall,      \* the call that builds the capture: function and arguments
    xlive,      \* the live request and response the call is given
    xstate,     \* "idle", "built", "raised", "exported", "exported_both",
                \* "copied", "exported_twins"
    xerror,     \* the exception the building call raised, "" if none
    xinfo,      \* the capture built (a dataclass instance), << >> if none
    xargs,      \* the arguments of as_dict / mask_private_data
    xdict,      \* what as_dict returned
    xother,     \* what as_dict returns with exclude_none the other way round
    xcopy,      \* what mask_private_data returned
    xbefore,    \* the capture and the live headers it references, as they
                \* were when as_dict / mask_private_data was called
    xtwin,      \* a second capture, exported with the same arguments
    xtwindict   \* what as_dict returned for the second capture

twinVars == <<xtwin, xtwindict>>

exportVars ==
    <<xcall, xlive, xstate, xerror, xinfo, xargs, xdict, xother, xcopy, xbefore,
      twinVars>>


InitMask ==
    /\ mkind \in {"QueryParams", "Headers"}
    /\ mdata \in IF mkind = "QueryParams"
                 THEN SeqsUpTo(Names \X Values, MaxItems)
                 ELSE SeqsUpTo(HeaderNames \X Values, MaxItems)
    /\ mnames \in SUBSET Names
    /\ mcalls = 0
    /\ mresult = << >>
    /\ magain = << >>

MaskParams ==
    /\ mkind = "QueryParams" /\ mcalls = 0
    /\ mresult' = _mask_private_params(mdata, mnames)
    /\ mcalls' = 1
    /\ UNCHANGED <<mkind, mdata, mnames, magain>>

MaskHeaders ==
    /\ mkind = "Headers" /\ mcalls = 0
    /\ mresult' = _mask_private_headers(mdata, mnames)
    /\ mcalls' = 1
    /\ UNCHANGED <<mkind, mdata, mnames, magain>>

MaskAgain ==
    /\ mcalls = 1
    /\ magain' = _mask_private_data(mkind, mresult, mnames)
    /\ mcalls' = 2
    /\ UNCHANGED <<mkind, mdata, mnames, mresult>>


(***************************************************************************)
(* The dispatch pipeline: LoggingMiddleware on an application with one API *)
(* route and one route that is not an APIRoute (docs), serving one request.*)
(***************************************************************************)
VARIABLES
    handlers,               \* LoggingMiddleware._handlers
    route_dependencies,     \* route.dependencies of the API route
    dependant_dependencies, \* route.dependant.dependencies of the API route
    pc,                     \* where the application and the request are
    request,                \* the request being served
    dep_pos,                \* index in dependant_dependencies being solved
    dependency_cache,       \* callables already solved for this request
    dep_running,            \* the dependency being awaited, NoCall if none
    req_call,               \* per handler: state of save_request_to_storage
    req_count,              \* per handler: calls of save_request_to_storage
    endpoint,               \* state of the wrapped endpoint
    app_response,           \* what the endpoint returned
    response,               \* the response object call_next returned
    iterators,              \* the body iterator objects: what each still yields
    resp_task,              \* per handler: the task of save_response_to_storage
    log,                    \* the calls of the logging function, in order
    returned,               \* the response the middleware returned
    delivered               \* the body chunks sent to the transport

pipeVars == <<handlers, route_dependencies, dependant_dependencies, pc,
              request, dep_pos, dependency_cache, dep_running, req_call,
              req_count, endpoint, app_response, response, iterators,
              resp_task, log, returned, delivered>>

vars == <<maskVars, exportVars, pipeVars>>

\* the masker's variables while the pipeline runs
MaskIdle ==
    /\ mkind = "QueryParams" /\ mdata = << >> /\ mnames = {}
    /\ mcalls = 0 /\ mresult = << >> /\ magain = << >>

\* LoggingHandler(include_body=..., include_form=False) and any other
\* implementation of BaseHandler, whose two methods return or raise
HandlerKinds ==
    { [cls |-> "LoggingHandler", include_body |-> FALSE],
      [cls |-> "LoggingHandler", include_body |-> TRUE],
      [cls |-> "Custom", include_body |-> FALSE] }

\* LoggingMiddleware.__init__
LoggingMiddleware(arg) ==
    IF arg = << >>
    THEN <<[cls |-> "LoggingHandler", include_body |-> FALSE]>>
    ELSE arg

\* callables: handler i's save_request_to_storage is i, a dependency the
\* route declared itself is UserDependency
UserDependency == 0
NoCall == -1

\* dependencies.add_dependency: <<route.dependencies, route.dependant.dependencies>>
\* after the call; every element of route.dependencies is inserted again at the
\* front of the dependant's list, in order
add_dependency(route_deps, dependant_deps, dependency) ==
    LET deps == Append(route_deps, dependency)
    IN  <<deps, deps \o dependant_deps>>

\* LoggingMiddleware._add_dependencies for the API route, handlers 1..n
_add_dependencies(route_deps, dependant_deps, n) ==
    LET loop[i \in 0..n] ==
            IF i = 0 THEN <<route_deps, dependant_deps>>
            ELSE add_dependency(loop[i - 1][1], loop[i - 1][2], i)
    IN  loop[n]

\* the parameters RequestInfo.from_starlette_request declares and the keyword
\* arguments LoggingHandler.save_request_to_storage passes to it
FromStarletteRequestParameters == {"request", "include_body"}
SaveRequestKeywords == {"request", "include_body", "include_form"}

\* the parameters ResponseInfo.from_starlette_response declares and the keyword
\* arguments LoggingHandler.save_response_to_storage passes to it
FromStarletteResponseParameters ==
    {"response", "include_body", "request", "request_info"}
SaveResponseKeywords == {"request", "response", "include_body"}

\* a call with a keyword the function does not declare raises TypeError
RaisesTypeError(keywords, parameters) == ~(keywords \subseteq parameters)

\* the body of the i-th request the test client sends
RequestBody == "rq"

\* a from_starlette_request that decodes the bytes it read (body.decode())
from_starlette_request_decodes(req, include_body) ==
    RequestInfo(req.method, req.path, req.query_params, req.headers,
                <<"client_address", "Address", req.client>>,
                IF include_body
                THEN <<"body", "str", req.body>>
                ELSE <<"body", "NoneType", None>>)

\* RequestInfo.from_starlette_request
from_starlette_request(req, include_body) ==
    RequestInfo(req.method, req.path, req.query_params, req.headers,
                <<"client_address", "Address", req.client>>,
                IF include_body
                THEN <<"body", "str", StrOfBytes(req.body)>>
                ELSE <<"body", "NoneType", None>>)

\* no request: the value None of a parameter `request`
NoRequest ==
    [route |-> "none", method |-> "", path |-> "", query_params |-> << >>,
     headers |-> << >>, client |-> <<"", 0>>, body |-> ""]

\* the fields request and body of a ResponseInfo when they are None
NoRequestInfo == <<"request", "NoneType", None>>

NoBody == <<"body", "NoneType", None>>

\* the classes of response _get_response_body tells apart with isinstance;
\* a FileResponse and a plain Response are none of them
Buffered == {"HTMLResponse", "PlainTextResponse", "JSONResponse"}

ResponseClasses ==
    {"StreamingResponse"} \cup Buffered \cup {"Response", "FileResponse"}

\* a _get_response_body that reads .body of every response that is not
\* streaming
_get_response_body_any(resp) ==
    IF resp.cls = "StreamingResponse"
    THEN IF resp.raises
         THEN [raised |-> TRUE, body |-> None, response |-> resp]
         ELSE [raised |-> FALSE, body |-> StrOfBytes(Join(resp.chunks)),
               response |-> [resp EXCEPT !.repaired = TRUE]]
    ELSE [raised |-> FALSE, body |-> StrOfBytes(resp.body),
          response |-> resp]

\* _get_response_body as one step: whether it raised, the body it returned
\* (None if none) and the response afterwards. A streaming response is read to
\* the end and gets a new iterator over the chunks read; when its iterator
\* raises, the exception leaves the function (nothing catches it).
_get_response_body(resp) ==
    IF resp.cls = "StreamingResponse"
    THEN IF resp.raises
         THEN [raised |-> TRUE, body |-> None, response |-> resp]
         ELSE [raised |-> FALSE, body |-> StrOfBytes(Join(resp.chunks)),
               response |-> [resp EXCEPT !.repaired = TRUE]]
    ELSE IF resp.cls \in Buffered
    THEN [raised |-> FALSE, body |-> StrOfBytes(resp.body),
          response |-> resp]
    ELSE [raised |-> FALSE, body |-> None, response |-> resp]

\* a from_starlette_response that keeps the request_info it was given
from_starlette_response_keeps_info(resp, include_body, req, request_info, body) ==
    ResponseInfo(resp.status_code, resp.headers,
                 IF request_info[2] # "NoneType"
                 THEN request_info
                 ELSE <<"request", "dict", EndpointInfo(req.method, req.path)>>,
                 IF include_body /\ body # None
                 THEN <<"body", "str", body>>
                 ELSE NoBody)

\* ResponseInfo.from_starlette_response, given the body _get_response_body
\* returned (None when it returned None, and unused without include_body)
from_starlette_response(resp, include_body, req, request_info, body) ==
    ResponseInfo(resp.status_code, resp.headers,
                 IF req # NoRequest
                 THEN <<"request", "dict", EndpointInfo(req.method, req.path)>>
                 ELSE request_info,
                 IF include_body /\ body # None
                 THEN <<"body", "str", body>>
                 ELSE NoBody)

\* the requests sent: to the API route or to the docs route, with or without
\* private names among the query parameters and headers
Requests ==
    { [route |-> r[1], method |-> r[2], path |-> r[3],
       query_params |-> q, headers |-> h,
       client |-> <<"testclient", 50000>>, body |-> RequestBody] :
      r \in {<<"api", "POST", "/v1/">>, <<"base", "GET", "/docs">>},
      q \in {<<<<"visible", "s1">>>>,
             <<<<"token", "s1">>, <<"visible", "s2">>>>},
      h \in {<<<<"authorization", "s1">>, <<"visible", "s2">>>>} }

\* the i-th chunk of a resp body
Chunk(i) == "c" \o ToString(i)

\* the responses an endpoint returns: some headers, a body of 0..MaxChunks chunks
Responses ==
    { [status_code |-> 200, headers |-> h,
       chunks |-> [i \in 1..k |-> Chunk(i)]] :
      h \in {<< >>,
             <<<<"token", "s1">>, <<"visible", "s2">>>>,
             <<<<"token", "s1">>, <<"token", "s2">>>>},
      k \in 0..MaxChunks }

NoResponse == [status_code |-> 0, headers |-> << >>, body_iterator |-> 0]

NoAppResponse == [status_code |-> 0, headers |-> << >>, chunks |-> << >>]

NewTask == [pc |-> "pending", it |-> 0, chunks |-> << >>, body |-> ""]

\* a live response as the exporter sees it: its class, its buffered body (a
\* response that is not streaming), the chunks its body iterator yields and
\* whether that iterator raises when read (a streaming one), and whether the
\* iterator has been replaced by _get_response_body
LiveResponses ==
    { x \in [cls : ResponseClasses, status_code : {200},
             headers : {<< >>, <<<<"token", "s1">>, <<"visible", "s2">>>>},
             body : {Join([i \in 1..k |-> Chunk(i)]) : k \in 0..MaxChunks},
             chunks : {[i \in 1..k |-> Chunk(i)] : k \in 0..MaxChunks},
             raises : BOOLEAN, repaired : {FALSE}] :
        IF x.cls = "StreamingResponse"
        THEN x.body = ""
        ELSE x.chunks = << >> /\ ~x.raises }

NoLiveResponse ==
    [cls |-> "Response", status_code |-> 0, headers |-> << >>, body |-> "",
     chunks |-> << >>, raises |-> FALSE, repaired |-> FALSE]

\* the fields of a multipart form: <<name, "text", value>> or
\* <<name, "file", file name>>
Forms ==
    { << >>,
      << <<"name1", "text", "s1">>, <<"files", "file", "a.txt">>,
         <<"files", "file", "b.txt">> >> }

NoCallYet ==
    [fn |-> "", keywords |-> {}, include_body |-> FALSE, include_form |-> FALSE]

NoLive ==
    [request |-> NoRequest, body_raises |-> FALSE, form |-> << >>,
     response |-> NoLiveResponse, request_info |-> NoRequestInfo]

\* the defaults of the parameters of as_dict (and of mask_private_data)
DefaultArgs ==
    [given |-> {}, is_mask_private_data |-> TRUE,
     masked_names |-> DEFAULT_MASKED_NAMES, exclude_none |-> TRUE]

NoBefore == [info |-> << >>, headers |-> << >>]

\* the exporter before it is used
ExportIdle ==
    /\ xcall = NoCallYet
    /\ xlive = NoLive
    /\ xstate = "idle"
    /\ xerror = ""
    /\ xinfo = << >>
    /\ xargs = DefaultArgs
    /\ xdict = << >>
    /\ xother = << >>
    /\ xcopy = << >>
    /\ xbefore = NoBefore
    /\ xtwin = << >>
    /\ xtwindict = << >>

N == Len(handlers)

Init ==
    /\ MaskIdle
    /\ ExportIdle
    /\ \E arg \in SeqsUpTo(HandlerKinds, MaxHandlers) :
          handlers = LoggingMiddleware(arg)
    /\ route_dependencies \in {<< >>, <<UserDependency>>}
    /\ dependant_dependencies = route_dependencies
    /\ pc = "constructed"
    /\ request = NoRequest
    /\ dep_pos = 1
    /\ dependency_cache = {}
    /\ dep_running = NoCall
    /\ req_call = [i \in 1..Len(handlers) |-> "idle"]
    /\ req_count = [i \in 1..Len(handlers) |-> 0]
    /\ endpoint = "idle"
    /\ app_response = NoAppResponse
    /\ response = NoResponse
    /\ iterators = << >>
    /\ resp_task = [i \in 1..Len(handlers) |-> NewTask]
    /\ log = << >>
    /\ returned = NoResponse
    /\ delivered = << >>

\* LoggingMiddleware.register: the request hook of every handler on the API
\* route, then the middleware
register ==
    /\ pc = "constructed"
    /\ LET r == _add_dependencies(route_dependencies, dependant_dependencies, N)
       IN  /\ route_dependencies' = r[1]
           /\ dependant_dependencies' = r[2]
    /\ pc' = "registered"
    /\ UNCHANGED <<maskVars, exportVars, handlers, request, dep_pos, dependency_cache,
                   dep_running, req_call, req_count, endpoint, app_response,
                   response, iterators, resp_task, log, returned, delivered>>

\* a registration that puts the request hook on every route
Dependencies_on_every_route == dependant_dependencies

\* the dependencies solved before the endpoint of the request's route
Dependencies ==
    IF request.route = "api" THEN dependant_dependencies ELSE << >>

\* _middleware is entered and awaits call_next(request)
ReceiveRequest ==
    /\ pc = "registered"
    /\ request' \in Requests
    /\ pc' = "solving"
    /\ UNCHANGED <<maskVars, exportVars, handlers, route_dependencies,
                   dependant_dependencies, dep_pos, dependency_cache,
                   dep_running, req_call, req_count, endpoint, app_response,
                   response, iterators, resp_task, log, returned, delivered>>

\* the next dependency was already solved for this request: its cached value
\* is used
DependencyCached ==
    /\ pc = "solving" /\ dep_running = NoCall
    /\ dep_pos <= Len(Dependencies)
    /\ Dependencies[dep_pos] \in dependency_cache
    /\ dep_pos' = dep_pos + 1
    /\ UNCHANGED <<maskVars, exportVars, handlers, route_dependencies,
                   dependant_dependencies, pc, request, dependency_cache,
                   dep_running, req_call, req_count, endpoint, app_response,
                   response, iterators, resp_task, log, returned, delivered>>

\* the next dependency is called and awaited
DependencyCall ==
    /\ pc = "solving" /\ dep_running = NoCall
    /\ dep_pos <= Len(Dependencies)
    /\ Dependencies[dep_pos] \notin dependency_cache
    /\ LET c == Dependencies[dep_pos]
       IN  /\ dep_running' = c
           /\ req_call' = IF c = UserDependency THEN req_call
                          ELSE [req_call EXCEPT ![c] = "running"]
           /\ req_count' = IF c = UserDependency THEN req_count
                           ELSE [req_count EXCEPT ![c] = @ + 1]
    /\ UNCHANGED <<maskVars, exportVars, handlers, route_dependencies,
                   dependant_dependencies, pc, request, dep_pos,
                   dependency_cache, endpoint, app_response, response,
                   iterators, resp_task, log, returned, delivered>>

\* whether handler c's save_request_to_storage can return / can raise
RequestCallReturns(c) ==
    IF handlers[c].cls = "LoggingHandler"
    THEN ~RaisesTypeError(SaveRequestKeywords, FromStarletteRequestParameters)
    ELSE TRUE

RequestCallRaises(c) ==
    IF handlers[c].cls = "LoggingHandler"
    THEN RaisesTypeError(SaveRequestKeywords, FromStarletteRequestParameters)
    ELSE TRUE

\* LoggingHandler.save_request_to_storage: the call of the logging function,
\* kept with the record it serializes; the text passed is Msg of the entry
RequestRecord(c) ==
    [handler |-> c, kind |-> "Request",
     info |-> from_starlette_request(request, handlers[c].include_body)]

\* the argument of a call of the logging function: request_info.as_json() or
\* response_info.as_json()
Msg(entry) == as_json(entry.info)

\* the awaited dependency returns (save_request_to_storage of a handler, or
\* the route's own dependency)
DependencyReturn ==
    /\ pc = "solving" /\ dep_running # NoCall
    /\ dep_running # UserDependency => RequestCallReturns(dep_running)
    /\ LET c == dep_running
       IN  /\ req_call' = IF c = UserDependency THEN req_call
                          ELSE [req_call EXCEPT ![c] = "returned"]
           /\ log' = IF c # UserDependency /\ handlers[c].cls = "LoggingHandler"
                     THEN Append(log, RequestRecord(c))
                     ELSE log
           /\ dependency_cache' = dependency_cache \cup {c}
    /\ dep_running' = NoCall
    /\ dep_pos' = dep_pos + 1
    /\ UNCHANGED <<maskVars, exportVars, handlers, route_dependencies,
                   dependant_dependencies, pc, request, req_count, endpoint,
                   app_response, response, iterators, resp_task, returned,
                   delivered>>

\* save_request_to_storage raises: the exception leaves solve_dependencies,
\* the route and call_next, so _middleware raises at line 54
DependencyRaise ==
    /\ pc = "solving" /\ dep_running # NoCall
    /\ dep_running # UserDependency
    /\ RequestCallRaises(dep_running)
    /\ req_call' = [req_call EXCEPT ![dep_running] = "raised"]
    /\ dep_running' = NoCall
    /\ pc' = "error"
    /\ UNCHANGED <<maskVars, exportVars, handlers, route_dependencies,
                   dependant_dependencies, request, dep_pos, dependency_cache,
                   req_count, endpoint, app_response, response, iterators,
                   resp_task, log, returned, delivered>>

\* an endpoint that is called without waiting for the route's dependencies
EndpointStart_without_dependencies ==
    /\ pc = "solving" /\ dep_running = NoCall
    /\ endpoint' = "running"
    /\ pc' = "endpoint"
    /\ UNCHANGED <<maskVars, exportVars, handlers, route_dependencies,
                   dependant_dependencies, request, dep_pos, dependency_cache,
                   dep_running, req_call, req_count, app_response, response,
                   iterators, resp_task, log, returned, delivered>>

\* every dependency is solved: the endpoint is called
EndpointStart ==
    /\ pc = "solving" /\ dep_running = NoCall
    /\ dep_pos > Len(Dependencies)
    /\ endpoint' = "running"
    /\ pc' = "endpoint"
    /\ UNCHANGED <<maskVars, exportVars, handlers, route_dependencies,
                   dependant_dependencies, request, dep_pos, dependency_cache,
                   dep_running, req_call, req_count, app_response, response,
                   iterators, resp_task, log, returned, delivered>>

\* the endpoint returns its response; call_next returns it as a streaming
\* response (line 54) and _handle_response creates one coroutine per handler
EndpointReturn ==
    /\ pc = "endpoint"
    /\ app_response' \in Responses
    /\ endpoint' = "returned"
    /\ response' = [status_code |-> app_response'.status_code,
                    headers |-> app_response'.headers,
                    body_iterator |-> 1]
    /\ iterators' = <<app_response'.chunks>>
    /\ pc' = "handle_response"
    /\ UNCHANGED <<maskVars, exportVars, handlers, route_dependencies,
                   dependant_dependencies, request, dep_pos, dependency_cache,
                   dep_running, req_call, req_count, resp_task, log, returned,
                   delivered>>

\* the endpoint raises: call_next raises, _middleware raises at line 54
EndpointRaise ==
    /\ pc = "endpoint"
    /\ endpoint' = "raised"
    /\ pc' = "error"
    /\ UNCHANGED <<maskVars, exportVars, handlers, route_dependencies,
                   dependant_dependencies, request, dep_pos, dependency_cache,
                   dep_running, req_call, req_count, app_response, response,
                   iterators, resp_task, log, returned, delivered>>


\* whether another task is suspended inside the async generator `it`: a second
\* __anext__ on a running async generator raises RuntimeError
Busy(it, i) ==
    \E j \in 1..N : j # i /\ resp_task[j].pc = "draining" /\ resp_task[j].it = it

\* every task gather created has run its first step: tasks are started in the
\* order gather got them, before any of them is resumed
AllStarted == \A j \in 1..N : resp_task[j].pc # "pending"

\* LoggingHandler.save_response_to_storage: the call of the logging function
ResponseRecord(i, body) ==
    [handler |-> i, kind |-> "Response",
     info |-> from_starlette_response(response, handlers[i].include_body,
                                      request, NoRequestInfo, body)]

\* a save_response_to_storage that reads the body whatever include_body says
StartedTask_always_reads(i) ==
    IF handlers[i].cls = "Custom"
    THEN [resp_task[i] EXCEPT !.pc = "running"]
    ELSE [resp_task[i] EXCEPT
             !.it = response.body_iterator,
             !.pc = IF Busy(response.body_iterator, i)
                    THEN "raised" ELSE "draining"]

\* the task of handler i after its first step, which runs up to the first
\* suspension: a LoggingHandler without body capture is done, one with body
\* capture is inside `async for chunk in response.body_iterator`
StartedTask(i) ==
    IF handlers[i].cls = "Custom"
    THEN [resp_task[i] EXCEPT !.pc = "running"]
    ELSE IF RaisesTypeError(SaveResponseKeywords,
                            FromStarletteResponseParameters)
    THEN [resp_task[i] EXCEPT !.pc = "raised"]
    ELSE IF ~handlers[i].include_body
    THEN [resp_task[i] EXCEPT !.pc = "done"]
    ELSE [resp_task[i] EXCEPT
             !.it = response.body_iterator,
             !.pc = IF Busy(response.body_iterator, i)
                    THEN "raised" ELSE "draining"]

\* the first step of the task of handler i's save_response_to_storage
ResponseTaskStart(i) ==
    /\ pc = "handle_response"
    /\ resp_task[i].pc = "pending"
    /\ \A j \in 1..(i - 1) : resp_task[j].pc # "pending"
    /\ resp_task' = [resp_task EXCEPT ![i] = StartedTask(i)]
    /\ log' = IF StartedTask(i).pc = "done"
              THEN Append(log, ResponseRecord(i, ""))
              ELSE log
    /\ UNCHANGED <<maskVars, exportVars, handlers, route_dependencies,
                   dependant_dependencies, pc, request, dep_pos,
                   dependency_cache, dep_running, req_call, req_count,
                   endpoint, app_response, response, iterators, returned,
                   delivered>>

\* _get_response_body: the iterator yields the next chunk
ResponseTaskChunk(i) ==
    /\ pc = "handle_response" /\ AllStarted
    /\ resp_task[i].pc = "draining"
    /\ iterators[resp_task[i].it] # << >>
    /\ resp_task' = [resp_task EXCEPT
                        ![i].chunks = Append(@, Head(iterators[resp_task[i].it]))]
    /\ iterators' = [iterators EXCEPT ![resp_task[i].it] = Tail(@)]
    /\ UNCHANGED <<maskVars, exportVars, handlers, route_dependencies,
                   dependant_dependencies, pc, request, dep_pos,
                   dependency_cache, dep_running, req_call, req_count,
                   endpoint, app_response, response, log, returned, delivered>>

\* _get_response_body without the repair of the response: the drained
\* iterator stays in place
ResponseTaskExhausted_without_repair(i) ==
    /\ pc = "handle_response" /\ AllStarted
    /\ resp_task[i].pc = "draining"
    /\ iterators[resp_task[i].it] = << >>
    /\ LET body == StrOfBytes(Join(resp_task[i].chunks))
       IN  /\ resp_task' = [resp_task EXCEPT ![i].pc = "done", ![i].body = body]
           /\ log' = Append(log, ResponseRecord(i, body))
    /\ UNCHANGED <<maskVars, exportVars, handlers, route_dependencies,
                   dependant_dependencies, pc, request, dep_pos,
                   dependency_cache, dep_running, req_call, req_count,
                   endpoint, app_response, response, iterators, returned,
                   delivered>>

\* _get_response_body: the iterator is exhausted; the response gets a new
\* iterator over the chunks read, the body is str() of their concatenation, and
\* save_response_to_storage logs the record
ResponseTaskExhausted(i) ==
    /\ pc = "handle_response" /\ AllStarted
    /\ resp_task[i].pc = "draining"
    /\ iterators[resp_task[i].it] = << >>
    /\ iterators' = Append(iterators, resp_task[i].chunks)
    /\ response' = [response EXCEPT !.body_iterator = Len(iterators) + 1]
    /\ LET body == StrOfBytes(Join(resp_task[i].chunks))
       IN  /\ resp_task' = [resp_task EXCEPT ![i].pc = "done", ![i].body = body]
           /\ log' = Append(log, ResponseRecord(i, body))
    /\ UNCHANGED <<maskVars, exportVars, handlers, route_dependencies,
                   dependant_dependencies, pc, request, dep_pos,
                   dependency_cache, dep_running, req_call, req_count,
                   endpoint, app_response, returned, delivered>>

\* save_response_to_storage of a handler that is not a LoggingHandler returns
ResponseTaskReturn(i) ==
    /\ pc = "handle_response" /\ AllStarted
    /\ resp_task[i].pc = "running"
    /\ resp_task' = [resp_task EXCEPT ![i].pc = "done"]
    /\ UNCHANGED <<maskVars, exportVars, handlers, route_dependencies,
                   dependant_dependencies, pc, request, dep_pos,
                   dependency_cache, dep_running, req_call, req_count,
                   endpoint, app_response, response, iterators, log, returned,
                   delivered>>

\* gather without return_exceptions=True: the first exception of a task leaves
\* gather, _handle_response and _middleware
ResponseTaskRaise_propagates(i) ==
    /\ pc = "handle_response" /\ AllStarted
    /\ resp_task[i].pc = "running"
    /\ resp_task' = [resp_task EXCEPT ![i].pc = "raised"]
    /\ pc' = "error"
    /\ UNCHANGED <<maskVars, exportVars, handlers, route_dependencies,
                   dependant_dependencies, request, dep_pos,
                   dependency_cache, dep_running, req_call, req_count,
                   endpoint, app_response, response, iterators, log, returned,
                   delivered>>

\* save_response_to_storage of a handler that is not a LoggingHandler raises;
\* gather(return_exceptions=True) keeps the exception as that task's result
ResponseTaskRaise(i) ==
    /\ pc = "handle_response" /\ AllStarted
    /\ resp_task[i].pc = "running"
    /\ resp_task' = [resp_task EXCEPT ![i].pc = "raised"]
    /\ UNCHANGED <<maskVars, exportVars, handlers, route_dependencies,
                   dependant_dependencies, pc, request, dep_pos,
                   dependency_cache, dep_running, req_call, req_count,
                   endpoint, app_response, response, iterators, log, returned,
                   delivered>>

\* a middleware that starts the tasks and returns without awaiting them
MiddlewareReturn_without_waiting ==
    /\ pc = "handle_response"
    /\ returned' = response
    /\ pc' = "returned"
    /\ UNCHANGED <<maskVars, exportVars, handlers, route_dependencies,
                   dependant_dependencies, request, dep_pos, dependency_cache,
                   dep_running, req_call, req_count, endpoint, app_response,
                   response, iterators, resp_task, log, delivered>>

\* gather returns once every task has a result or an exception;
\* _handle_response returns and _middleware returns the response (line 56)
MiddlewareReturn ==
    /\ pc = "handle_response"
    /\ \A i \in 1..N : resp_task[i].pc \in {"done", "raised"}
    /\ returned' = response
    /\ pc' = "returned"
    /\ UNCHANGED <<maskVars, exportVars, handlers, route_dependencies,
                   dependant_dependencies, request, dep_pos, dependency_cache,
                   dep_running, req_call, req_count, endpoint, app_response,
                   response, iterators, resp_task, log, delivered>>

\* the returned response is sent: its body iterator is read to the end
Send ==
    /\ pc = "returned"
    /\ delivered' = iterators[returned.body_iterator]
    /\ iterators' = [iterators EXCEPT ![returned.body_iterator] = << >>]
    /\ pc' = "sent"
    /\ UNCHANGED <<maskVars, exportVars, handlers, route_dependencies,
                   dependant_dependencies, request, dep_pos, dependency_cache,
                   dep_running, req_call, req_count, endpoint, app_response,
                   response, resp_task, log, returned>>

Next ==
    \/ register
    \/ ReceiveRequest
    \/ DependencyCached
    \/ DependencyCall
    \/ DependencyReturn
    \/ DependencyRaise
    \/ EndpointStart
    \/ EndpointReturn
    \/ EndpointRaise
    \/ \E i \in 1..N : ResponseTaskStart(i)
    \/ \E i \in 1..N : ResponseTaskChunk(i)
    \/ \E i \in 1..N : ResponseTaskExhausted(i)
    \/ \E i \in 1..N : ResponseTaskReturn(i)
    \/ \E i \in 1..N : ResponseTaskRaise(i)
    \/ MiddlewareReturn
    \/ Send

Spec == Init /\ [][Next]_vars

\* the event loop runs every task that can run, and a capture call of a
\* handler ends: it returns or it raises
FairSpec == Spec /\ WF_vars(Next)

(***************************************************************************)
(* Properties of the pipeline, under Spec and FairSpec.                     *)
(***************************************************************************)
Finished == pc \in {"sent", "error"}

Left == pc \in {"returned", "sent"}

\* C1: on an API route every handler's save_request_to_storage has returned
\* before the endpoint starts, and the endpoint has returned its response
\* before any save_response_to_storage starts.
C1_PhaseOrder ==
    /\ (request.route = "api" /\ endpoint # "idle") =>
          \A i \in 1..N : req_call[i] = "returned"
    /\ (\E i \in 1..N : resp_task[i].pc # "pending") =>
          /\ endpoint = "returned"
          /\ response.status_code = app_response.status_code

\* a response capture has started for a request to the API route with two
\* handlers or more
C1_Witness ==
    /\ request.route = "api" /\ N >= 2
    /\ \E i \in 1..N : resp_task[i].pc # "pending"

\* C2: with the default sink, one request to the API route makes the logging
\* function be called exactly twice, with the serialized Request record and
\* then the serialized Response record, and the request completes normally.
C2_DefaultSinkLogsTwice ==
    (/\ handlers = LoggingMiddleware(<< >>)
     /\ request.route = "api"
     /\ Finished) =>
        /\ pc = "sent"
        /\ Len(log) = 2
        /\ log[1].kind = "Request"
        /\ Msg(log[1]) = as_json(from_starlette_request(request, FALSE))
        /\ log[2].kind = "Response"
        /\ Msg(log[2]) =
              as_json(from_starlette_response(response, FALSE, request,
                                              NoRequestInfo, None))

\* a capture-response call has raised and gather is still waiting
RaisedInGather ==
    pc = "handle_response" /\ \E i \in 1..N : resp_task[i].pc = "raised"

\* no exception of a capture-response call leaves the middleware, and once the
\* middleware has returned after such an exception every call has ended and
\* the response returned is the one call_next gave, unchanged
C3_Suppressed ==
    /\ pc = "error" => \A i \in 1..N : resp_task[i].pc = "pending"
    /\ (Left /\ \E i \in 1..N : resp_task[i].pc = "raised") =>
          /\ \A j \in 1..N : resp_task[j].pc \in {"done", "raised"}
          /\ returned = response
          /\ returned.status_code = app_response.status_code
          /\ returned.headers = app_response.headers

\* C3: a save_response_to_storage that raises does not stop the others: each
\* of them is started and ends, the exception does not leave the middleware,
\* and the middleware returns the response call_next gave it.
C3_ResponseFailureIsolated ==
    /\ []C3_Suppressed
    /\ RaisedInGather ~> Left

\* the response was sent although one capture-response call raised, and
\* another one completed
C3_Witness ==
    /\ pc = "sent"
    /\ \E i, j \in 1..N : resp_task[i].pc = "raised" /\ resp_task[j].pc = "done"

\* C4: with two sinks, one of which raises on every call, the other one gets
\* the request capture and the response capture, the endpoint runs and the
\* response reaches the client unaltered.
C4_SinkFailureIsolated ==
    \A r, o \in 1..N :
        (/\ N = 2 /\ r # o /\ Finished
         /\ request.route = "api"
         /\ handlers[o].cls = "Custom"
         /\ req_call[r] = "raised" \/ resp_task[r].pc = "raised"
         /\ req_call[r] # "returned" /\ resp_task[r].pc # "done"
         /\ req_call[o] # "raised" /\ resp_task[o].pc # "raised") =>
            /\ req_call[o] = "returned"
            /\ resp_task[o].pc = "done"
            /\ endpoint = "returned"
            /\ pc = "sent"
            /\ delivered = app_response.chunks

\* C5: the response leaves the middleware only when every
\* save_response_to_storage has returned or raised.
C5_ReturnAfterAllSinks ==
    Left => \A i \in 1..N : resp_task[i].pc \in {"done", "raised"}

\* the middleware has returned with two handlers or more, one of which had
\* to be resumed after its first step
C5_Witness ==
    /\ pc = "returned" /\ N >= 2
    /\ \E i \in 1..N : handlers[i].cls = "Custom" \/ handlers[i].include_body

\* the handlers that read the body of the response
Capturers ==
    {i \in 1..N : handlers[i].cls = "LoggingHandler" /\ handlers[i].include_body}

\* C6: after the one body capture the response yields the chunks of
\* the original iterator, the captured body is their concatenation, and the
\* status code and the headers are the endpoint's.
C6_BodyIsConcatenation ==
    \A i \in Capturers :
        (Cardinality(Capturers) = 1 /\ resp_task[i].pc = "done") =>
            /\ pc = "handle_response" =>
                  iterators[response.body_iterator] = app_response.chunks
            /\ pc = "sent" => delivered = app_response.chunks
            /\ resp_task[i].body = Join(app_response.chunks)
            /\ response.status_code = app_response.status_code
            /\ response.headers = app_response.headers

\* C6, with the body as the code captures it: the same, with the captured
\* body being str() of the
\* concatenation, the text b'...'.
C6_BodyTransparent ==
    \A i \in Capturers :
        (Cardinality(Capturers) = 1 /\ resp_task[i].pc = "done") =>
            /\ pc = "handle_response" =>
                  iterators[response.body_iterator] = app_response.chunks
            /\ pc = "sent" => delivered = app_response.chunks
            /\ resp_task[i].body = StrOfBytes(Join(app_response.chunks))
            /\ response.status_code = app_response.status_code
            /\ response.headers = app_response.headers

\* a body of two chunks or more was captured once and then sent
C6_Witness ==
    /\ pc = "sent"
    /\ Cardinality(Capturers) = 1
    /\ \A i \in Capturers : resp_task[i].pc = "done"
    /\ Len(app_response.chunks) >= 2

\* the masked form of a multimap with the default names: the values of
\* authorization and token replaced, every other entry kept
ExpectedMasked(data) ==
    [i \in 1..Len(data) |->
        IF data[i][1] \in {"authorization", "token"}
        THEN <<data[i][1], "MASKED">>
        ELSE data[i]]

\* the text of a record whose query parameters and headers are given
ExpectedRequestMsg(c) ==
    orjson_dumps(as_dict(
        RequestInfo(request.method, request.path,
                    ExpectedMasked(request.query_params),
                    ExpectedMasked(request.headers),
                    <<"client_address", "Address", request.client>>,
                    IF handlers[c].include_body
                    THEN <<"body", "str", StrOfBytes(request.body)>>
                    ELSE <<"body", "NoneType", None>>),
        FALSE, {}, TRUE))

ExpectedResponseMsg(i) ==
    orjson_dumps(as_dict(
        ResponseInfo(app_response.status_code,
                     ExpectedMasked(app_response.headers),
                     <<"request", "dict",
                       EndpointInfo(request.method, request.path)>>,
                     IF handlers[i].include_body
                     THEN <<"body", "str", resp_task[i].body>>
                     ELSE <<"body", "NoneType", None>>),
        FALSE, {}, TRUE))

PipeIdle ==
    /\ handlers = LoggingMiddleware(<< >>)
    /\ route_dependencies = << >>
    /\ dependant_dependencies = << >>
    /\ pc = "constructed"
    /\ request = NoRequest
    /\ dep_pos = 1
    /\ dependency_cache = {}
    /\ dep_running = NoCall
    /\ req_call = [i \in 1..Len(handlers) |-> "idle"]
    /\ req_count = [i \in 1..Len(handlers) |-> 0]
    /\ endpoint = "idle"
    /\ app_response = NoAppResponse
    /\ response = NoResponse
    /\ iterators = << >>
    /\ resp_task = [i \in 1..Len(handlers) |-> NewTask]
    /\ log = << >>
    /\ returned = NoResponse
    /\ delivered = << >>

NextMask ==
    \/ MaskParams /\ UNCHANGED <<exportVars, pipeVars>>
    \/ MaskHeaders /\ UNCHANGED <<exportVars, pipeVars>>
    \/ MaskAgain /\ UNCHANGED <<exportVars, pipeVars>>

\* the masker's inputs are drawn, nothing is registered or served
InitMaskOnly == InitMask /\ ExportIdle /\ PipeIdle

SpecMask == InitMaskOnly /\ [][NextMask]_vars

(***************************************************************************)
(* Properties of the masker, under SpecMask.                                *)
(***************************************************************************)
\* the entries of a multimap whose lower-cased key is not in names
Unmasked(data, names) ==
    LET keep(e) == Lower(e[1]) \notin names
    IN  SelectSeq(data, keep)

Keys(data) == {data[i][1] : i \in 1..Len(data)}

\* C7: after masking, every entry whose lower-cased key is in the masked-name
\* set carries "MASKED" (every occurrence, none is lost), and the entries whose
\* lower-cased key is not in the set are the same entries with the same values.
C7_MaskCoverage ==
    mcalls >= 1 =>
        /\ \A i \in 1..Len(mresult) :
               Lower(mresult[i][1]) \in mnames => mresult[i][2] = masked_value
        /\ Keys(mdata) = Keys(mresult)
        /\ Unmasked(mresult, mnames) = Unmasked(mdata, mnames)

\* C8: masking is idempotent: masking the masked container with the same
\* names gives the masked container again.
C8_MaskIdempotent ==
    mcalls = 2 => magain = mresult

\* a container that masking changed has been masked a second time, for
\* headers one that holds a masked name twice
C8_Witness ==
    /\ mcalls = 2
    /\ mresult # mdata
    /\ mkind = "Headers" => Len(mresult) < Len(mdata)

\* C9: masking keeps the shape of the container: as many entries, with the
\* same keys in the same order.
C9_MaskKeepsShape ==
    mcalls >= 1 =>
        /\ Len(mresult) = Len(mdata)
        /\ \A i \in 1..Len(mdata) : mresult[i][1] = mdata[i][1]
(***************************************************************************)
(* The exporter alone: a capture is built, then exported or copied.        *)
(***************************************************************************)
\* the masked-name sets passed by a caller
MaskedNameSets ==
    {{}, {"visible"}, {"visible", "token"}, {"Token", "authorization"}}

\* the arguments of a call of as_dict: the keywords given and the value of
\* every parameter, the default where the keyword is not given
AsDictArgs ==
    { a \in [given : SUBSET {"is_mask_private_data", "masked_names",
                             "exclude_none"},
             is_mask_private_data : BOOLEAN,
             masked_names : MaskedNameSets \cup {DEFAULT_MASKED_NAMES},
             exclude_none : BOOLEAN] :
        /\ "is_mask_private_data" \notin a.given =>
              a.is_mask_private_data = DefaultArgs.is_mask_private_data
        /\ "masked_names" \notin a.given =>
              a.masked_names = DefaultArgs.masked_names
        /\ "masked_names" \in a.given => a.masked_names \in MaskedNameSets
        /\ "exclude_none" \notin a.given =>
              a.exclude_none = DefaultArgs.exclude_none
        /\ Cardinality(a.given) \in {0, 1, 3} }

\* RequestInfo(method=..., path=..., query_params=..., headers=...,
\* client_address=..., body=...) called directly
BuildRequestInfo ==
    /\ xstate = "idle"
    /\ \E q \in SeqsUpTo(Names \X Values, MaxItems),
          h \in {<< >>, <<<<"authorization", "s1">>, <<"visible", "s2">>>>,
                 <<<<"token", "s1">>, <<"token", "s2">>>>},
          a \in {<<"client_address", "NoneType", None>>,
                 <<"client_address", "Address", <<"testclient", 50000>>>>},
          b \in {NoBody, <<"body", "str", "token">>} :
          xinfo' = RequestInfo("POST", "/v1/", q, h, a, b)
    /\ xcall' = [NoCallYet EXCEPT !.fn = "RequestInfo"]
    /\ xstate' = "built"
    /\ UNCHANGED <<maskVars, pipeVars, twinVars, xlive, xerror, xargs, xdict, xother,
                   xcopy, xbefore>>

\* ResponseInfo(status_code=..., headers=..., request=..., body=...) called
\* directly
BuildResponseInfo ==
    /\ xstate = "idle"
    /\ \E h \in SeqsUpTo(HeaderNames \X Values, MaxItems),
          r \in {NoRequestInfo,
                 <<"request", "dict", EndpointInfo("GET", "/other")>>},
          b \in {NoBody, <<"body", "str", "token">>} :
          xinfo' = ResponseInfo(200, h, r, b)
    /\ xcall' = [NoCallYet EXCEPT !.fn = "ResponseInfo"]
    /\ xstate' = "built"
    /\ UNCHANGED <<maskVars, pipeVars, twinVars, xlive, xerror, xargs, xdict, xother,
                   xcopy, xbefore>>

\* the bodies of the requests given to the exporter: none, or some bytes
RequestBodies == {"", RequestBody}

\* await RequestInfo.from_starlette_request(request=..., include_body=...
\* [, include_form=...]): a keyword the function does not declare raises
\* TypeError; an exception of `await request.body()` leaves the function
FromStarletteRequest ==
    /\ xstate = "idle"
    /\ \E r \in Requests, content \in RequestBodies,
          body_raises \in BOOLEAN, form \in Forms,
          include_body \in BOOLEAN, include_form \in BOOLEAN,
          keywords \in {{"request", "include_body"},
                        {"request", "include_body", "include_form"}} :
          LET req == [r EXCEPT !.body = content] IN
          /\ include_form => "include_form" \in keywords
          /\ xlive' = [NoLive EXCEPT !.request = req,
                                     !.body_raises = body_raises,
                                     !.form = form]
          /\ xcall' = [fn |-> "from_starlette_request", keywords |-> keywords,
                       include_body |-> include_body,
                       include_form |-> include_form]
          /\ IF RaisesTypeError(keywords, FromStarletteRequestParameters)
             THEN xstate' = "raised" /\ xerror' = "TypeError" /\ xinfo' = << >>
             ELSE IF include_body /\ body_raises
             THEN xstate' = "raised" /\ xerror' = "ReadError" /\ xinfo' = << >>
             ELSE /\ xstate' = "built" /\ xerror' = ""
                  /\ xinfo' = from_starlette_request(req, include_body)
    /\ UNCHANGED <<maskVars, pipeVars, twinVars, xargs, xdict, xother, xcopy, xbefore>>

\* await ResponseInfo.from_starlette_response(response=..., include_body=...
\* [, request=...][, request_info=...]); with include_body the body is read by
\* _get_response_body, whose exception leaves the function
FromStarletteResponse ==
    /\ xstate = "idle"
    /\ \E resp \in LiveResponses, include_body \in BOOLEAN,
          req \in {NoRequest} \cup {r \in Requests : r.query_params = << >>
                                      \/ Len(r.query_params) = 1},
          request_info \in {NoRequestInfo,
                            <<"request", "dict",
                              EndpointInfo("GET", "/other")>>} :
          LET read == IF include_body THEN _get_response_body(resp)
                      ELSE [raised |-> FALSE, body |-> None, response |-> resp]
          IN  /\ xcall' = [fn |-> "from_starlette_response",
                           keywords |->
                               {"response", "include_body"}
                               \cup (IF req # NoRequest THEN {"request"}
                                     ELSE {})
                               \cup (IF request_info[2] # "NoneType"
                                     THEN {"request_info"} ELSE {}),
                           include_body |-> include_body,
                           include_form |-> FALSE]
              /\ IF read.raised
                 THEN /\ xstate' = "raised" /\ xerror' = "ReadError"
                      /\ xinfo' = << >>
                 ELSE /\ xstate' = "built" /\ xerror' = ""
                      /\ xinfo' = from_starlette_response(
                                      resp, include_body, req, request_info,
                                      read.body)
              /\ xlive' = [NoLive EXCEPT !.request = req,
                                         !.response = read.response,
                                         !.request_info = request_info]
    /\ UNCHANGED <<maskVars, pipeVars, twinVars, xargs, xdict, xother, xcopy, xbefore>>

\* the headers the capture holds and the live object they are: the capture
\* built from a live request or response holds request.headers or
\* response.headers itself, not a copy
LiveHeaders ==
    IF xcall.fn = "from_starlette_request" THEN xlive.request.headers
    ELSE IF xcall.fn = "from_starlette_response" THEN xlive.response.headers
    ELSE << >>

Before == [info |-> xinfo, headers |-> LiveHeaders]

\* a _mask_private_headers that assigns to the Headers object it is given
ArgumentAfterMasking_in_place(headers, masked_names) ==
    MaskHeadersLoop(headers, masked_names)

\* the Headers object given to _mask_private_headers, after the call: the
\* function assigns to headers.mutablecopy(), a MutableHeaders over a copy of
\* the raw list, so the object it was given keeps its entries
ArgumentAfterMasking(headers, masked_names) == headers

\* the capture with its headers field holding that value
WithHeaders(info, headers) ==
    [i \in 1..Len(info) |->
        IF info[i][1] = "headers" THEN <<"headers", "Headers", headers>>
        ELSE info[i]]

\* the live request and response once their headers object holds that value
LiveWithHeaders(live, fn, headers) ==
    IF fn = "from_starlette_request"
    THEN [live EXCEPT !.request.headers = headers]
    ELSE IF fn = "from_starlette_response"
    THEN [live EXCEPT !.response.headers = headers]
    ELSE live

\* info.as_dict(...): asdict(self) copies every field value (copy.deepcopy),
\* and the loop masks and dumps the copies, so the capture and the live
\* headers are not assigned to
AsDict ==
    /\ xstate = "built"
    /\ \E a \in AsDictArgs :
          /\ xargs' = a
          /\ xdict' = as_dict(xinfo, a.is_mask_private_data, a.masked_names,
                              a.exclude_none)
    /\ xstate' = "exported"
    /\ xbefore' = Before
    /\ UNCHANGED <<maskVars, pipeVars, twinVars, xcall, xlive, xerror, xinfo, xother,
                   xcopy>>

\* info.as_dict(...) again, with the same arguments but exclude_none
AsDictOther ==
    /\ xstate = "exported"
    /\ xother' = as_dict(xinfo, xargs.is_mask_private_data, xargs.masked_names,
                         ~xargs.exclude_none)
    /\ xstate' = "exported_both"
    /\ UNCHANGED <<maskVars, pipeVars, twinVars, xcall, xlive, xerror, xinfo, xargs,
                   xdict, xcopy, xbefore>>

\* info.mask_private_data([masked_names=...])
MaskPrivateData ==
    /\ xstate = "built"
    /\ \E a \in AsDictArgs :
          /\ a.given \subseteq {"masked_names"}
          /\ xargs' = a
          /\ xcopy' = mask_private_data(xinfo, a.masked_names)
          /\ LET after == ArgumentAfterMasking(Item(xinfo, "headers")[3],
                                               a.masked_names)
             IN  /\ xinfo' = WithHeaders(xinfo, after)
                 /\ xlive' = LiveWithHeaders(xlive, xcall.fn, after)
    /\ xstate' = "copied"
    /\ xbefore' = Before
    /\ UNCHANGED <<maskVars, pipeVars, twinVars, xcall, xerror, xdict, xother>>

\* the multimaps that differ from data at most in the values of the entries
\* whose lower-cased name is one of the names
Twins(data, names) ==
    { t \in [1..Len(data) -> Names \X Values] :
        \A i \in 1..Len(data) :
            /\ t[i][1] = data[i][1]
            /\ Lower(data[i][1]) \notin names => t[i] = data[i] }

\* the captures that differ from info at most in those values of their query
\* parameters and headers
TwinCaptures(info, names) ==
    LET q == IF HasKey(info, "query_params")
             THEN Item(info, "query_params")[3] ELSE << >>
        h == Item(info, "headers")[3]
    IN  { [i \in 1..Len(info) |->
              IF info[i][1] = "query_params"
              THEN <<"query_params", "QueryParams", tq>>
              ELSE IF info[i][1] = "headers"
              THEN <<"headers", "Headers", th>>
              ELSE info[i]] :
          tq \in Twins(q, names), th \in Twins(h, names) }

\* info.as_dict(masked_names=M) and other.as_dict(masked_names=M) on two
\* captures that differ at most in the values of the names in M
AsDictTwins ==
    /\ xstate = "built"
    /\ \E a \in AsDictArgs :
          /\ a.is_mask_private_data
          /\ a.given \subseteq {"masked_names"}
          /\ xargs' = a
          /\ xtwin' \in TwinCaptures(xinfo, a.masked_names)
          /\ xdict' = as_dict(xinfo, TRUE, a.masked_names, a.exclude_none)
          /\ xtwindict' = as_dict(xtwin', TRUE, a.masked_names, a.exclude_none)
    /\ xstate' = "exported_twins"
    /\ xbefore' = Before
    /\ UNCHANGED <<maskVars, pipeVars, xcall, xlive, xerror, xinfo, xother,
                   xcopy>>

NextExport ==
    \/ BuildRequestInfo
    \/ BuildResponseInfo
    \/ FromStarletteRequest
    \/ FromStarletteResponse
    \/ AsDict
    \/ AsDictOther
    \/ MaskPrivateData

InitExport == MaskIdle /\ ExportIdle /\ PipeIdle

SpecExport == InitExport /\ [][NextExport]_vars

\* two captures are built and exported side by side
NextTwins ==
    \/ BuildRequestInfo
    \/ BuildResponseInfo
    \/ AsDictTwins

SpecTwins == InitExport /\ [][NextTwins]_vars

(***************************************************************************)
(* Properties of the exporter, under SpecExport.                           *)
(***************************************************************************)
Exported == xstate \in {"exported", "exported_both"}

\* the value of the last entry of a multimap with that key
LastValue(data, key) ==
    data[CHOOSE i \in 1..Len(data) :
            /\ data[i][1] = key
            /\ \A j \in (i + 1)..Len(data) : data[j][1] # key][2]

\* a dict of headers holds every name of the multimap once, with the value
\* the multimap gives it (the last one of a repeated name)
HeadersDictOf(dict, data) ==
    /\ \A i \in 1..Len(data) : HasKey(dict, data[i][1])
    /\ \A i, j \in 1..Len(dict) : dict[i][1] = dict[j][1] => i = j
    /\ \A i \in 1..Len(dict) :
          /\ \E j \in 1..Len(data) : data[j][1] = dict[i][1]
          /\ dict[i][3] = LastValue(data, dict[i][1])

\* the field is exported as it is in the capture: a client address as its
\* host and port, anything else unchanged
ExportedAsIs(item, field) ==
    IF field[2] = "Address"
    THEN item = <<field[1], "dict",
                  <<<<"host", "str", field[3][1]>>,
                    <<"port", "int", field[3][2]>>>>>>
    ELSE item = field

\* a multimap in which the entries whose lower-cased key is one of the names
\* carry "MASKED", every other entry being the same
MaskedWith(data, names) ==
    [i \in 1..Len(data) |->
        IF Lower(data[i][1]) \in names
        THEN <<data[i][1], "MASKED">>
        ELSE data[i]]

\* C11: as_dict masks by default, and only query parameters and headers: every
\* other field is exported as it is. as_dict(is_mask_private_data=False)
\* returns every query parameter and header with its original value, whatever
\* masked names it is given.
C11_MaskingIsOptional ==
    Exported =>
        /\ \A i \in 1..Len(xdict) :
              xdict[i][1] \notin {"query_params", "headers"} =>
                  ExportedAsIs(xdict[i], Item(xinfo, xdict[i][1]))
        /\ ~xargs.is_mask_private_data =>
              /\ HasKey(xinfo, "query_params") =>
                    Item(xdict, "query_params")[3] =
                        UrlEncode(Item(xinfo, "query_params")[3])
              /\ HeadersDictOf(Item(xdict, "headers")[3],
                               Item(xinfo, "headers")[3])
        /\ xargs.given = {} =>
              /\ HasKey(xinfo, "query_params") =>
                    Item(xdict, "query_params")[3] =
                        UrlEncode(MaskedWith(Item(xinfo, "query_params")[3],
                                             {"authorization", "token"}))
              /\ HeadersDictOf(Item(xdict, "headers")[3],
                               MaskedWith(Item(xinfo, "headers")[3],
                                          {"authorization", "token"}))

\* as_dict(is_mask_private_data=False, masked_names={..., 'token'}) on a
\* request capture that has a query parameter and a header named token
C11_Witness ==
    /\ Exported
    /\ ~xargs.is_mask_private_data /\ "token" \in xargs.masked_names
    /\ HasKey(xinfo, "query_params")
    /\ HasKey(Item(xinfo, "query_params")[3], "token")
    /\ HasKey(Item(xinfo, "headers")[3], "token")

LowerSet(names) == {Lower(n) : n \in names}

\* the entries of a multimap with that key
Named(data, key) ==
    LET is(e) == e[1] = key
    IN  SelectSeq(data, is)

\* C12: a masked-name set S given by the caller is additional to the default
\* set: as_dict(masked_names=S) and mask_private_data(masked_names=S) mask the
\* names in S and still mask authorization and token.
C12_NamesAreAdditional ==
    ("masked_names" \in xargs.given /\ xargs.is_mask_private_data) =>
        LET names == xargs.masked_names \cup {"authorization", "token"}
        IN  /\ (Exported /\ HasKey(xinfo, "query_params")) =>
                  Item(xdict, "query_params")[3] =
                      UrlEncode(MaskedWith(Item(xinfo, "query_params")[3],
                                           names))
            /\ Exported =>
                  HeadersDictOf(Item(xdict, "headers")[3],
                                MaskedWith(Item(xinfo, "headers")[3], names))
            /\ (xstate = "copied" /\ HasKey(xinfo, "query_params")) =>
                  Item(xcopy, "query_params")[3] =
                      MaskedWith(Item(xinfo, "query_params")[3], names)
            /\ xstate = "copied" =>
                  \A i \in 1..Len(Item(xcopy, "headers")[3]) :
                      LET e == Item(xcopy, "headers")[3][i]
                      IN  Lower(e[1]) \in names => e[2] = "MASKED"

\* C12, with the set given replacing the default one: masking is done with S
\* alone. A query parameter is masked exactly when its lower-cased key is in
\* S; a header named authorization or token is masked when S holds that name
\* in some letter case, and keeps its values otherwise.
C12_NamesReplaceDefault ==
    ("masked_names" \in xargs.given /\ xargs.is_mask_private_data) =>
        LET S == xargs.masked_names
            h == Item(xinfo, "headers")[3]
        IN  /\ (Exported /\ HasKey(xinfo, "query_params")) =>
                  Item(xdict, "query_params")[3] =
                      UrlEncode(MaskedWith(Item(xinfo, "query_params")[3], S))
            /\ Exported =>
                  \A n \in {"authorization", "token"} :
                      HasKey(h, n) =>
                          Item(Item(xdict, "headers")[3], n)[3] =
                              IF n \in LowerSet(S) THEN "MASKED"
                              ELSE LastValue(h, n)
            /\ (xstate = "copied" /\ HasKey(xinfo, "query_params")) =>
                  Item(xcopy, "query_params")[3] =
                      MaskedWith(Item(xinfo, "query_params")[3], S)
            /\ xstate = "copied" =>
                  \A n \in {"authorization", "token"} :
                      IF n \in LowerSet(S)
                      THEN /\ HasKey(h, n) => HasKey(Item(xcopy, "headers")[3], n)
                           /\ \A i \in 1..Len(Item(xcopy, "headers")[3]) :
                                 Item(xcopy, "headers")[3][i][1] = n =>
                                     Item(xcopy, "headers")[3][i][2] = "MASKED"
                      ELSE Named(Item(xcopy, "headers")[3], n) = Named(h, n)

\* as_dict(masked_names=S) was called with an S that holds no default name,
\* on a request capture with a query parameter and a header named token
C12_Witness ==
    /\ Exported
    /\ "masked_names" \in xargs.given /\ xargs.is_mask_private_data
    /\ xargs.masked_names = {"visible"}
    /\ HasKey(xinfo, "query_params")
    /\ HasKey(Item(xinfo, "query_params")[3], "token")
    /\ HasKey(Item(xinfo, "headers")[3], "token")

\* the order of the keys of a serialized Request and Response record
RequestOrder ==
    <<"type", "method", "path", "query_params", "headers", "client_address",
      "body">>

ResponseOrder == <<"type", "status_code", "headers", "request", "body">>

\* the keys of the dict are the keys of the order that the dict holds, in
\* that order
InOrder(dict, order) ==
    LET present(k) == HasKey(dict, k)
    IN  KeysOf(dict) = SelectSeq(order, present)

AbsentFields ==
    {xinfo[i][1] : i \in {j \in 1..Len(xinfo) : xinfo[j][2] = "NoneType"}}

\* C14: for a capture whose body, client_address or request is None,
\* as_dict(exclude_none=True) has no key for it and as_dict(exclude_none=False)
\* is the same dict plus that key with the value null; no other key or value
\* differs.
C14_ExcludeNone ==
    xstate = "exported_both" =>
        LET full == IF xargs.exclude_none THEN xother ELSE xdict
            short == IF xargs.exclude_none THEN xdict ELSE xother
            notNull(item) == item[2] # "NoneType"
        IN  /\ SelectSeq(full, notNull) = short
            /\ \A k \in AbsentFields :
                  /\ ~HasKey(short, k)
                  /\ Item(full, k) = <<k, "NoneType", None>>
            /\ \A i \in 1..Len(full) :
                  full[i][1] \notin AbsentFields => HasKey(short, full[i][1])

\* a capture without body, with empty query parameters, was exported both ways
C14_Witness ==
    /\ xstate = "exported_both"
    /\ "body" \in AbsentFields
    /\ HasKey(xinfo, "query_params")
    /\ Item(xinfo, "query_params")[3] = << >>

\* the form of a request as the capture is to list it: one <<name, value>>
\* per field, in submission order
ExpectedForm(form) == [i \in 1..Len(form) |-> <<form[i][1], form[i][3]>>]

\* C15: a request capture built with include_form from a request with
\* multipart form data has a field form that lists the fields of the form in
\* submission order, repeated names kept, and the serialized record carries
\* form in place of body.
C15_FormCapture ==
    (/\ xcall.fn = "from_starlette_request"
     /\ xcall.include_form
     /\ xlive.form # << >>
     /\ ~xlive.body_raises) =>
        /\ xstate # "raised"
        /\ HasKey(xinfo, "form")
        /\ Item(xinfo, "form")[3] = ExpectedForm(xlive.form)
        /\ (Exported /\ xargs.exclude_none) =>
              HasKey(xdict, "form") /\ ~HasKey(xdict, "body")

(***************************************************************************)
(* Routes that are not API routes, under Spec.                             *)
(***************************************************************************)
\* the calls of the logging function made by handler i
LogOf(i) == {k \in 1..Len(log) : log[k].handler = i}

\* C16: for a request served by a route that is not an API route no handler's
\* save_request_to_storage is called, every handler's
\* save_response_to_storage is called once, and a LoggingHandler logs one
\* record, the Response one; the default sink logs exactly that record.
C16_OnlyResponseOffApiRoutes ==
    request.route = "base" =>
        /\ \A i \in 1..N : req_count[i] = 0 /\ req_call[i] = "idle"
        /\ \A k \in 1..Len(log) : log[k].kind = "Response"
        /\ pc = "sent" =>
              /\ \A i \in 1..N :
                    /\ resp_task[i].pc \in {"done", "raised"}
                    /\ (handlers[i].cls = "LoggingHandler"
                        /\ resp_task[i].pc = "done") =>
                           Cardinality(LogOf(i)) = 1
              /\ handlers = LoggingMiddleware(<< >>) =>
                    /\ Len(log) = 1
                    /\ Msg(log[1]) =
                          as_json(from_starlette_response(
                              response, FALSE, request, NoRequestInfo, None))

\* a request to the docs route was served with the default sink
C16_Witness ==
    /\ request.route = "base" /\ pc = "sent"
    /\ handlers = LoggingMiddleware(<< >>)
    /\ Len(log) = 1

(***************************************************************************)
(* Captures built from live objects, under SpecExport.                     *)
(***************************************************************************)
\* the field request of a Response capture that refers to that request
RequestOf(req) ==
    <<"request", "dict",
      <<<<"method", "str", req.method>>, <<"path", "str", req.path>>>>>>

\* C17: a Response capture built from a live request carries request =
\* {method, path} of that request, also when an EndpointInfo is given as
\* well; built from neither, its request is None and the serialized record
\* has no key request.
C17_BackReference ==
    (xcall.fn = "from_starlette_response" /\ xstate # "raised") =>
        /\ "request" \in xcall.keywords =>
              /\ Item(xinfo, "request") = RequestOf(xlive.request)
              /\ Exported => Item(xdict, "request") = RequestOf(xlive.request)
        /\ xcall.keywords \cap {"request", "request_info"} = {} =>
              /\ Item(xinfo, "request")[2] = "NoneType"
              /\ (Exported /\ xargs.exclude_none) => ~HasKey(xdict, "request")

\* a capture built from a live request and an EndpointInfo of another
\* endpoint was exported
C17_Witness ==
    /\ xcall.fn = "from_starlette_response"
    /\ {"request", "request_info"} \subseteq xcall.keywords
    /\ Exported
    /\ xlive.request_info[3] # EndpointInfo(xlive.request.method,
                                            xlive.request.path)

\* the call read the body and the read failed: the iterator of the streaming
\* response raised, or `await request.body()` did
ReadFails ==
    /\ xcall.include_body
    /\ \/ /\ xcall.fn = "from_starlette_response"
          /\ xlive.response.cls = "StreamingResponse"
          /\ xlive.response.raises
       \/ /\ xcall.fn = "from_starlette_request"
          /\ "include_form" \notin xcall.keywords
          /\ xlive.body_raises

\* C18: when reading the live body fails while a capture is built, the
\* capture is still produced, with body None, and the error does not reach
\* the caller of from_starlette_request / from_starlette_response.
C18_ReadFailureAbsorbed ==
    ReadFails =>
        /\ xstate # "raised"
        /\ xerror = ""
        /\ Item(xinfo, "body")[2] = "NoneType"

\* the response given to from_starlette_response(include_body=True) is not a
\* streaming one
ReadsBuffered ==
    /\ xcall.fn = "from_starlette_response"
    /\ xcall.include_body
    /\ xlive.response.cls # "StreamingResponse"

\* C19: body extraction does not fail on the type of the response: of an
\* HTML, plain-text or JSON response it returns the buffered body, of any
\* other response that is not streaming it returns None, and it neither
\* raises nor changes the response.
C19_BufferedBodyReturned ==
    ReadsBuffered =>
        /\ xstate # "raised"
        /\ ~xlive.response.repaired
        /\ IF xlive.response.cls \in {"HTMLResponse", "PlainTextResponse",
                                      "JSONResponse"}
           THEN Item(xinfo, "body") = <<"body", "str", xlive.response.body>>
           ELSE Item(xinfo, "body")[2] = "NoneType"

\* C19, with the body as the code returns it: str() of the buffered body, the
\* text b'...'.
C19_BufferedBodyAsText ==
    ReadsBuffered =>
        /\ xstate # "raised"
        /\ ~xlive.response.repaired
        /\ IF xlive.response.cls \in {"HTMLResponse", "PlainTextResponse",
                                      "JSONResponse"}
           THEN Item(xinfo, "body") =
                    <<"body", "str", "b'" \o xlive.response.body \o "'">>
           ELSE Item(xinfo, "body")[2] = "NoneType"

\* the body of a JSON response that has one, or of a FileResponse, was
\* extracted
C19_Witness ==
    /\ ReadsBuffered
    /\ xstate = "built"
    /\ xlive.response.cls \in {"JSONResponse", "FileResponse"}
    /\ xlive.response.body # ""

\* the pairs key=value joined by &, in the order of the sequence
QueryString(pairs) ==
    LET rest[n \in 1..(Len(pairs) + 1)] ==
            IF n > Len(pairs) THEN ""
            ELSE pairs[n][1] \o "=" \o pairs[n][2]
                 \o (IF n < Len(pairs) THEN "&" ELSE "") \o rest[n + 1]
    IN  rest[1]

\* C20: the serialized query_params lists the pairs of the query parameters
\* in insertion order, a repeated key as repeated pairs; masking comes first,
\* so a masked pair stands at its place as key=MASKED.
C20_QueryStringKeepsPairs ==
    (Exported /\ HasKey(xinfo, "query_params")) =>
        LET q == Item(xinfo, "query_params")[3]
            pairs == [i \in 1..Len(q) |->
                         IF /\ xargs.is_mask_private_data
                            /\ Lower(q[i][1]) \in xargs.masked_names
                         THEN <<q[i][1], "MASKED">>
                         ELSE q[i]]
        IN  Item(xdict, "query_params") =
                <<"query_params", "str", QueryString(pairs)>>

\* query parameters with a repeated key, the first of them masked, were
\* exported
C20_Witness ==
    /\ Exported /\ HasKey(xinfo, "query_params")
    /\ xargs.is_mask_private_data
    /\ LET q == Item(xinfo, "query_params")[3]
       IN  /\ Len(q) >= 2
           /\ q[1][1] = q[2][1]
           /\ Lower(q[1][1]) \in xargs.masked_names

\* two multimaps are equal as QueryParams or Headers objects: the same
\* entries, each as many times (__eq__ compares the sorted lists)
SameEntries(a, b) ==
    /\ Len(a) = Len(b)
    /\ \A e \in {a[i] : i \in 1..Len(a)} \cup {b[i] : i \in 1..Len(b)} :
          Cardinality({i \in 1..Len(a) : a[i] = e})
              = Cardinality({i \in 1..Len(b) : b[i] = e})

\* two captures are equal as dataclass instances: field by field
SameRecord(r1, r2) ==
    /\ Len(r1) = Len(r2)
    /\ \A i \in 1..Len(r1) :
          /\ r1[i][1] = r2[i][1]
          /\ r1[i][2] = r2[i][2]
          /\ IF r1[i][2] \in {"QueryParams", "Headers"}
             THEN SameEntries(r1[i][3], r2[i][3])
             ELSE r1[i][3] = r2[i][3]

\* the capture constructed directly from the fields of another one, with its
\* query parameters and headers masked
ConstructedMasked(info, names) ==
    IF HasKey(info, "query_params")
    THEN RequestInfo(Item(info, "method")[3], Item(info, "path")[3],
                     MaskedWith(Item(info, "query_params")[3], names),
                     MaskedWith(Item(info, "headers")[3], names),
                     Item(info, "client_address"), Item(info, "body"))
    ELSE ResponseInfo(Item(info, "status_code")[3],
                      MaskedWith(Item(info, "headers")[3], names),
                      Item(info, "request"), Item(info, "body"))

\* the capture and the live headers are as they were before the call
Untouched == xinfo = xbefore.info /\ LiveHeaders = xbefore.headers

\* mask_private_data returned the capture with the masker's results in the
\* two masked fields and every other field of the original
CopyOfOriginal ==
    /\ KeysOf(xcopy) = KeysOf(xbefore.info)
    /\ \A i \in 1..Len(xcopy) :
          xcopy[i] =
              IF xcopy[i][2] \in {"QueryParams", "Headers"}
              THEN <<xcopy[i][1], xcopy[i][2],
                     _mask_private_data(xcopy[i][2], xbefore.info[i][3],
                                        xargs.masked_names)>>
              ELSE xbefore.info[i]

\* mask_private_data and as_dict leave the capture they are called on and
\* the live headers it holds as they were
C21_Frame ==
    /\ xstate = "copied" => Untouched /\ CopyOfOriginal
    /\ Exported => Untouched

\* C21: mask_private_data(M) returns a record equal to the one constructed
\* directly with the masked query parameters and headers and the other fields
\* of the original; mask_private_data and as_dict change no field of the
\* record they are called on, nor the live headers the record holds.
C21_MaskedCopy ==
    /\ xstate = "copied" =>
          /\ SameRecord(xcopy, ConstructedMasked(xbefore.info,
                                                 xargs.masked_names))
          /\ Untouched
    /\ Exported => Untouched

\* a request capture was built from a live request
BuiltFromRequest ==
    /\ xcall.fn = "from_starlette_request"
    /\ xstate \notin {"idle", "raised"}

\* C22: with body capture enabled the body field of the request capture is
\* the text of the request body itself, with no prefix and no quoting added.
C22_RequestBodyVerbatim ==
    (BuiltFromRequest /\ xcall.include_body) =>
        Item(xinfo, "body") = <<"body", "str", xlive.request.body>>

\* C22, with the body as the code captures it: the body field is str() of the
\* bytes of the request body, the text b'...'; without body capture the field
\* is absent.
C22_RequestBodyAsText ==
    BuiltFromRequest =>
        Item(xinfo, "body") =
            IF xcall.include_body
            THEN <<"body", "str", "b'" \o xlive.request.body \o "'">>
            ELSE <<"body", "NoneType", None>>

\* a request with a body was captured with body capture enabled
C22_Witness ==
    /\ BuiltFromRequest /\ xcall.include_body
    /\ xlive.request.body # ""

\* the LoggingHandlers without body capture (the default)
NonCapturers ==
    {i \in 1..N : handlers[i].cls = "LoggingHandler" /\ ~handlers[i].include_body}

\* the keys of the dict a LoggingHandler serializes for a record
LoggedKeys(entry) == KeysOf(as_dict(entry.info, TRUE, DEFAULT_MASKED_NAMES, TRUE))

ConcurrentCapture == Cardinality(Capturers) >= 2 /\ pc = "sent"

\* C24: when two or more sinks with body capture run their
\* save_response_to_storage concurrently on the response, each of them
\* captures the complete body, and the chunks delivered to the transport are
\* the original chunks in order.
C24_ConcurrentCapture ==
    ConcurrentCapture =>
        /\ \A i \in Capturers :
              /\ resp_task[i].pc = "done"
              /\ resp_task[i].chunks = app_response.chunks
              /\ \E k \in 1..Len(log) :
                    log[k].handler = i /\ log[k].kind = "Response"
        /\ delivered = app_response.chunks

\* with concurrent captures the transport still gets the original chunks,
\* and the first of the capturing sinks has the complete body
C24_DeliveryIntact ==
    ConcurrentCapture =>
        /\ delivered = app_response.chunks
        /\ \A i \in Capturers :
              IF \A j \in Capturers : i <= j
              THEN resp_task[i].pc = "done"
                   /\ resp_task[i].chunks = app_response.chunks
              ELSE resp_task[i].pc = "raised" /\ resp_task[i].chunks = << >>

\* the Request records handler i was given
RequestRecordsOf(i) ==
    {k \in 1..Len(log) : log[k].handler = i /\ log[k].kind = "Request"}

\* the hooks are called in the order of the handlers, each after the one
\* before it has ended
HooksInOrder ==
    \A i, j \in 1..N :
        (j < i /\ req_count[i] >= 1) => req_call[j] \in {"returned", "raised"}

\* C25: whatever the number of handlers and of dependencies the API route
\* declared itself, for a request to that route every handler's
\* save_request_to_storage runs exactly once, in the order of the handlers,
\* although add_dependency inserts every dependency of the route again on each
\* call; no sink gets a second Request record.
C25_HookRunsOnce ==
    /\ HooksInOrder
    /\ \A i \in 1..N : Cardinality(RequestRecordsOf(i)) <= 1
    /\ (request.route = "api" /\ (Finished \/ endpoint # "idle")) =>
          \A i \in 1..N : req_count[i] = 1

\* no hook runs twice for a request although the route's dependant lists it
\* several times, and every hook has run once when the endpoint is called
C25_NoDuplicateHook ==
    /\ HooksInOrder
    /\ \A i \in 1..N : req_count[i] <= 1 /\ Cardinality(RequestRecordsOf(i)) <= 1
    /\ (request.route = "api" /\ endpoint # "idle") =>
          \A i \in 1..N : req_count[i] = 1

\* the entries of the two captures that the names do not cover are the same
SameOutsideNames(a, b, names) ==
    /\ Len(a) = Len(b)
    /\ \A i \in 1..Len(a) :
          /\ a[i][1] = b[i][1]
          /\ Lower(a[i][1]) \notin names => a[i][2] = b[i][2]

\* C26: masked values do not influence the output: for two captures that
\* differ only in the values of the query parameters and headers whose
\* lower-cased name is in the masked-name set, as_dict with masking and that
\* set returns the same dict.
C26_MaskedValuesHidden ==
    xstate = "exported_twins" => xtwindict = xdict

\* two request captures that differ in the value of a masked query parameter
\* and of a masked header were exported
C26_Witness ==
    /\ xstate = "exported_twins"
    /\ HasKey(xinfo, "query_params")
    /\ LET q1 == Item(xinfo, "query_params")[3]
           q2 == Item(xtwin, "query_params")[3]
           h1 == Item(xinfo, "headers")[3]
           h2 == Item(xtwin, "headers")[3]
       IN  /\ q1 # q2 /\ h1 # h2
           /\ SameOutsideNames(q1, q2, xargs.masked_names)
           /\ SameOutsideNames(h1, h2, xargs.masked_names)

\* handler i's save_request_to_storage was given the request and returned
GotRequest(i) == i <= N /\ req_call[i] = "returned"

\* handler i's save_response_to_storage was called with the response
GotResponse(i) == i <= N /\ resp_task[i].pc # "pending"

\* C27: every Request capture handed to a sink is eventually followed by a
\* Response capture for the same request handed to that sink, also when the
\* wrapped endpoint raises instead of returning a response.
C27_ResponseFollowsRequest ==
    \A i \in 1..MaxHandlers : GotRequest(i) ~> GotResponse(i)

\* once the endpoint has returned, every sink that got the request gets the
\* response and its call ends; after an exception of the endpoint or of a
\* request hook no sink gets a response
C27_FollowsAfterReturn ==
    /\ \A i \in 1..MaxHandlers :
          (GotRequest(i) /\ endpoint = "returned") ~>
              (i <= N /\ resp_task[i].pc \in {"done", "raised"})
    /\ [](pc = "error" => \A i \in 1..N : ~GotResponse(i))
====
